---- MODULE Spec2Model ----
(***************************************************************************)
(* Motion logging node: the EEPROM ring queue (EEPROMStorage.h) and the    *)
(* ESP-01 AT-command link (ESP01Driver.h), with the status record          *)
(* (Status.h) and the event source (MotionDetector.h).                     *)
(***************************************************************************)
EXTENDS Integers, Sequences, FiniteSets, TLC

(***************************************************************************)
(* Program constants                                                       *)
(***************************************************************************)
MAX_ENTRIES == 10
ADDR_HEADER == 0
ADDR_READINGS == 16
READING_BYTES == 8
\* width of int on the AVR targets that provide EEPROM.update and SoftwareSerial
INT_BITS == 16
\* an erased EEPROM cell
ERASED == 255

(***************************************************************************)
(* Bounds of the model                                                     *)
(***************************************************************************)
\* pushes per run of the queue specifications
MaxPushes == 3
\* pushes per run of the wraparound specification
MaxFifoPushes == 11

\* persisted header bytes a boot can find: valid, boundary, corrupted, erased
HeaderBytes == {0, 1, 9, 10, 11, 255}
\* pushes per run of the round-trip specification
MaxCodecPushes == 1
\* pushes per run of the link specification
MaxLinkPushes == 2
\* pushes, whole or interrupted, per run of the power-loss specification
MaxCrashPushes == 2
\* pushes per run of the specification of run-together lines
MaxMixedPushes == 1
\* the clock's last value, in ms
MaxNow == 2400
\* head indices the power-loss scenarios start from: first and last slot
CrashHeads == {0, 9}
\* head indices the wraparound scenario starts from
FifoHeads == 0 .. 9

\* events of the queue specifications: the spec's scenario events, and one
\* whose fields need more than 15 bits
Readings ==
  { [duration_ms |-> [hi |-> 0, lo |-> 500], ts |-> [hi |-> 0, lo |-> 1000]],
    [duration_ms |-> [hi |-> 0, lo |-> 40000], ts |-> [hi |-> 1, lo |-> 4464]] }

\* 32-bit values of the round-trip specification, as [hi, lo] halves: 0, 1,
\* 255, 256, 0x7FFF, 0x8000, 0xFFFF, 0x10000, 0x7FFFFFFF, 0x80000000, 0xFFFFFFFF
CodecValues ==
  { [hi |-> 0, lo |-> 0], [hi |-> 0, lo |-> 1], [hi |-> 0, lo |-> 255],
    [hi |-> 0, lo |-> 256], [hi |-> 0, lo |-> 32767], [hi |-> 0, lo |-> 32768],
    [hi |-> 0, lo |-> 65535], [hi |-> 1, lo |-> 0], [hi |-> 32767, lo |-> 65535],
    [hi |-> 32768, lo |-> 0], [hi |-> 65535, lo |-> 65535] }
CodecReadings == [duration_ms : CodecValues, ts : CodecValues]

\* the n-th event of the wraparound specification: the clock goes on
FifoEvent(n) ==
  [duration_ms |-> [hi |-> 0, lo |-> 500 * n], ts |-> [hi |-> 0, lo |-> 5000 * n]]

\* the n-th event of the link specification: the spec's scenario events A
\* and B, then longer ones
LinkEvent(n) ==
  IF n = 1 THEN [duration_ms |-> [hi |-> 0, lo |-> 500], ts |-> [hi |-> 0, lo |-> 1000]]
  ELSE IF n = 2 THEN [duration_ms |-> [hi |-> 0, lo |-> 1200], ts |-> [hi |-> 0, lo |-> 2500]]
  ELSE [duration_ms |-> [hi |-> 0, lo |-> 20000 * (n - 1)], ts |-> [hi |-> 1, lo |-> 1000 * n]]

\* the lines the modem sends, as readStringUntil('\n') returns them
RawLines ==
  { "OK\r", "WIFI CONNECTED\r", "WIFI GOT IP\r", "ERROR\r", "DNS FAIL\r",
    "CONNECT\r", "ALREADY CONNECTED\r", "> ", "SEND OK\r", "SEND FAIL\r",
    "CLOSED\r", "\r" }

\* lines in which two of the modem's lines have run together, the newline
\* between them lost on the serial channel
MixedLines ==
  { "WIFI GOT IP\rERROR\r", "ERROR\rCLOSED\r", "ALREADY CONNECTED\rERROR\r" }

\* what one call of loop finds on the serial channel: nothing, one line, or
\* two lines the modem sends back to back
Bursts ==
  {<<>>} \cup {<<l>> : l \in RawLines}
    \cup { <<"WIFI CONNECTED\r", "WIFI GOT IP\r">>, <<"SEND OK\r", "CLOSED\r">> }

\* how far the clock moves between two calls, in ms
TickSteps == {600}

\* what a build does with a left shift of an int by at least its width
\* (undefined behaviour): the value is shifted out, or the count is taken
\* modulo the width
Builds == {"shiftout", "modcount"}

VARIABLES
  eeprom,   \* non-volatile bytes: address -> 0..255
  count,    \* EEPROMStorage::count
  head,     \* EEPROMStorage::head
  espState,             \* Status::espState
  lastSendOk,           \* Status::lastSendOk
  storedReadingsCount,  \* Status::storedReadingsCount
  pendingPayload,       \* ESP01Driver::pendingPayload
  pendingSendState,     \* ESP01Driver::pendingSendState
  lastAtCheck,          \* ESP01Driver::lastAtCheck
  now,      \* millis()
  build,    \* which outcome the build gives the over-wide shifts
  nPush,    \* calls of push made so far (bounds the run)
  sentR,    \* history: the reading of the last accepted send request
  head0,    \* history: head as the first boot loaded it
  q,        \* history: the events pushed and not yet popped, oldest first
  last      \* history: the last operation, its inputs and its results

storageVars == <<eeprom, count, head>>
statusVars == <<espState, lastSendOk, storedReadingsCount>>
driverVars == <<pendingPayload, pendingSendState, lastAtCheck, sentR>>
vars == <<eeprom, count, head, espState, lastSendOk, storedReadingsCount,
          pendingPayload, pendingSendState, lastAtCheck, sentR,
          now, build, nPush, head0, q, last>>

(***************************************************************************)
(* Integer helpers                                                         *)
(***************************************************************************)
RECURSIVE Pow2Of(_)
Pow2Of(n) == IF n = 0 THEN 1 ELSE 2 * Pow2Of(n - 1)

\* 2^n, tabulated for the shift counts and widths of the model
Pow2Table == [n \in 0 .. 24 |-> Pow2Of(n)]
Pow2(n) == Pow2Table[n]

\* An unsigned 32-bit value is the record [hi, lo] of its two 16-bit halves,
\* hi * 65536 + lo.
U32(hi, lo) == [hi |-> hi, lo |-> lo]

\* (v >> 8k) & 0xFF on an unsigned 32-bit v, k in 0..3
ByteOf(v, k) ==
  LET half == IF k < 2 THEN v.lo ELSE v.hi
  IN  (half \div Pow2(8 * (k % 2))) % 256

RECURSIVE BitOr(_, _, _)
\* a | b on n-bit patterns
BitOr(a, b, n) ==
  IF n = 0 THEN 0
  ELSE IF a = 0 THEN b % Pow2(n)
  ELSE IF b = 0 THEN a % Pow2(n)
  ELSE (IF a % 2 = 1 \/ b % 2 = 1 THEN 1 ELSE 0) + 2 * BitOr(a \div 2, b \div 2, n - 1)

\* byte << s evaluated in int: the bit pattern of the result. A count below
\* the width wraps modulo 2^INT_BITS; a count of at least the width is
\* undefined and gives what the build gives.
ShiftLeftInt(b, s, bld) ==
  IF s < INT_BITS THEN (b * Pow2(s)) % Pow2(INT_BITS)
  ELSE IF bld = "shiftout" THEN 0
  ELSE (b * Pow2(s % INT_BITS)) % Pow2(INT_BITS)

\* conversion of an int bit pattern to uint32_t: sign extension
IntToUint32(p) ==
  U32(IF p >= Pow2(INT_BITS - 1) THEN Pow2(32 - INT_BITS) - 1 ELSE 0, p)

(***************************************************************************)
(* EEPROM cells                                                            *)
(***************************************************************************)
SlotAddr(index) == ADDR_READINGS + index * READING_BYTES

QueueAddrs == {ADDR_HEADER, ADDR_HEADER + 1}
                \cup (ADDR_READINGS .. (ADDR_READINGS + MAX_ENTRIES * READING_BYTES - 1))

\* EEPROM.read: cells outside the header and the ten slots are never written
\* by the program and read as erased
EEPROM_read(e, addr) == IF addr \in DOMAIN e THEN e[addr] ELSE ERASED

\* EEPROM.update on m = [e |-> cells, w |-> physical writes so far]: the cell
\* is written only if the value differs
EEPROM_update(m, addr, v) ==
  IF EEPROM_read(m.e, addr) = v THEN m
  ELSE [e |-> [m.e EXCEPT ![addr] = v], w |-> m.w + 1]

writeReadingToEEPROM(m, index, r) ==
  LET addr == SlotAddr(index)
      m0 == EEPROM_update(m, addr + 0, ByteOf(r.duration_ms, 0))
      m1 == EEPROM_update(m0, addr + 1, ByteOf(r.duration_ms, 1))
      m2 == EEPROM_update(m1, addr + 2, ByteOf(r.duration_ms, 2))
      m3 == EEPROM_update(m2, addr + 3, ByteOf(r.duration_ms, 3))
      m4 == EEPROM_update(m3, addr + 4, ByteOf(r.ts, 0))
      m5 == EEPROM_update(m4, addr + 5, ByteOf(r.ts, 1))
      m6 == EEPROM_update(m5, addr + 6, ByteOf(r.ts, 2))
  IN  EEPROM_update(m6, addr + 7, ByteOf(r.ts, 3))

\* b0 | (b1 << 8) | (b2 << 16) | (b3 << 24) on bytes promoted to int, the
\* int result converted to uint32_t
ReadWord(e, addr, bld) ==
  LET t0 == EEPROM_read(e, addr)
      t1 == ShiftLeftInt(EEPROM_read(e, addr + 1), 8, bld)
      t2 == ShiftLeftInt(EEPROM_read(e, addr + 2), 16, bld)
      t3 == ShiftLeftInt(EEPROM_read(e, addr + 3), 24, bld)
  IN  IntToUint32(BitOr(BitOr(BitOr(t0, t1, INT_BITS), t2, INT_BITS), t3, INT_BITS))

readReadingFromEEPROM(e, index, bld) ==
  LET addr == SlotAddr(index)
  IN  [duration_ms |-> ReadWord(e, addr, bld), ts |-> ReadWord(e, addr + 4, bld)]

\* a Reading nothing was stored into
NoReading == [duration_ms |-> U32(0, 0), ts |-> U32(0, 0)]

(***************************************************************************)
(* EEPROMStorage, on s = [count, head, eeprom]                             *)
(***************************************************************************)
Storage == [count |-> count, head |-> head, eeprom |-> eeprom]

\* begin with the range check off by one
begin_offByOne(e) ==
  LET c == EEPROM_read(e, 0)
      h == EEPROM_read(e, 1)
  IN  IF c > MAX_ENTRIES + 1 THEN [count |-> 0, head |-> 0, eeprom |-> e]
      ELSE [count |-> c, head |-> h, eeprom |-> e]

begin(e) ==
  LET c == EEPROM_read(e, 0)
      h == EEPROM_read(e, 1)
  IN  IF c > MAX_ENTRIES THEN [count |-> 0, head |-> 0, eeprom |-> e]
      ELSE [count |-> c, head |-> h, eeprom |-> e]

isFull(s) == s.count >= MAX_ENTRIES
isEmpty(s) == s.count = 0
hasPending(s) == ~isEmpty(s)
size(s) == s.count

\* push that writes the slot before it looks at isFull
push_writesFirst(s, r) ==
  LET tailIndex == ((s.head + s.count) % MAX_ENTRIES) % 256
      m1 == writeReadingToEEPROM([e |-> s.eeprom, w |-> 0], tailIndex, r)
      c1 == (s.count + 1) % 256
      m2 == EEPROM_update(m1, 0, c1)
  IN  IF isFull(s)
      THEN [s |-> [s EXCEPT !.eeprom = m1.e], ret |-> FALSE, slot |-> -1, w |-> m1.w]
      ELSE [s |-> [count |-> c1, head |-> s.head, eeprom |-> m2.e],
            ret |-> TRUE, slot |-> tailIndex, w |-> m2.w]

\* push that writes the slot at head
push_atHead(s, r) ==
  IF isFull(s) THEN [s |-> s, ret |-> FALSE, slot |-> -1, w |-> 0]
  ELSE LET tailIndex == s.head
           m1 == writeReadingToEEPROM([e |-> s.eeprom, w |-> 0], tailIndex, r)
           c1 == (s.count + 1) % 256
           m2 == EEPROM_update(m1, 0, c1)
       IN  [s |-> [count |-> c1, head |-> s.head, eeprom |-> m2.e],
            ret |-> TRUE, slot |-> tailIndex, w |-> m2.w]

\* the result: s the storage afterwards, ret the return value, slot the slot
\* written (-1 if none), w the physical writes
push(s, r) ==
  IF isFull(s) THEN [s |-> s, ret |-> FALSE, slot |-> -1, w |-> 0]
  ELSE LET tailIndex == ((s.head + s.count) % MAX_ENTRIES) % 256
           m1 == writeReadingToEEPROM([e |-> s.eeprom, w |-> 0], tailIndex, r)
           c1 == (s.count + 1) % 256
           m2 == EEPROM_update(m1, 0, c1)
       IN  [s |-> [count |-> c1, head |-> s.head, eeprom |-> m2.e],
            ret |-> TRUE, slot |-> tailIndex, w |-> m2.w]

\* the result: ret the return value, r the reading stored into outR (the
\* caller's reading is left alone when ret is FALSE)
peekOldest(s, bld) ==
  IF isEmpty(s) THEN [ret |-> FALSE, r |-> NoReading]
  ELSE [ret |-> TRUE, r |-> readReadingFromEEPROM(s.eeprom, s.head, bld)]

\* popOldest that clears the vacated slot
popOldest_clearsSlot(s) ==
  IF isEmpty(s) THEN [s |-> s, ret |-> FALSE, w |-> 0]
  ELSE LET h1 == ((s.head + 1) % MAX_ENTRIES) % 256
           c1 == IF s.count # 0 THEN s.count - 1 ELSE s.count
           m0 == writeReadingToEEPROM([e |-> s.eeprom, w |-> 0], s.head, NoReading)
           m1 == EEPROM_update(m0, 1, h1)
           m2 == EEPROM_update(m1, 0, c1)
       IN  [s |-> [count |-> c1, head |-> h1, eeprom |-> m2.e],
            ret |-> TRUE, w |-> m2.w]

popOldest(s) ==
  IF isEmpty(s) THEN [s |-> s, ret |-> FALSE, w |-> 0]
  ELSE LET h1 == ((s.head + 1) % MAX_ENTRIES) % 256
           c1 == IF s.count # 0 THEN s.count - 1 ELSE s.count
           m1 == EEPROM_update([e |-> s.eeprom, w |-> 0], 1, h1)
           m2 == EEPROM_update(m1, 0, c1)
       IN  [s |-> [count |-> c1, head |-> h1, eeprom |-> m2.e],
            ret |-> TRUE, w |-> m2.w]

(***************************************************************************)
(* Strings                                                                 *)
(***************************************************************************)
RECURSIVE IndexFrom(_, _, _)
\* String::indexOf from position i (1-based here): the 0-based index of the
\* first occurrence of pat in str, or -1
IndexFrom(str, pat, i) ==
  IF i + Len(pat) - 1 > Len(str) THEN -1
  ELSE IF SubSeq(str, i, i + Len(pat) - 1) = pat THEN i - 1
  ELSE IndexFrom(str, pat, i + 1)

indexOf(str, pat) == IndexFrom(str, pat, 1)

endsWith(str, suffix) ==
  /\ Len(suffix) <= Len(str)
  /\ SubSeq(str, Len(str) - Len(suffix) + 1, Len(str)) = suffix

IsSpace(c) == c \in {" ", "\t", "\n", "\r", "\f"}

RECURSIVE TrimLeft(_)
TrimLeft(str) ==
  IF Len(str) > 0 /\ IsSpace(SubSeq(str, 1, 1)) THEN TrimLeft(SubSeq(str, 2, Len(str)))
  ELSE str

RECURSIVE TrimRight(_)
TrimRight(str) ==
  IF Len(str) > 0 /\ IsSpace(SubSeq(str, Len(str), Len(str)))
  THEN TrimRight(SubSeq(str, 1, Len(str) - 1))
  ELSE str

\* String::trim
trim(str) == TrimRight(TrimLeft(str))

Digit(n) == SubSeq("0123456789", n + 1, n + 1)

RECURSIVE DecInt(_)
\* %d of a non-negative int
DecInt(n) == IF n < 10 THEN Digit(n) ELSE DecInt(n \div 10) \o Digit(n % 10)

RECURSIVE DecU32(_)
\* %lu of an unsigned 32-bit value, by long division of its halves
DecU32(v) ==
  IF v.hi = 0 THEN DecInt(v.lo)
  ELSE LET t == (v.hi % 10) * 65536 + v.lo
       IN  DecU32(U32(v.hi \div 10, t \div 10)) \o Digit(t % 10)

\* the substrings handleResponse looks for
Patterns ==
  { "OK", "WIFI GOT IP", "WIFI CONNECTED", "ERROR", "DNS FAIL", "CONNECT",
    "ALREADY CONNECT", "SEND OK", "SEND FAIL", "CLOSED" }

\* trim, tabulated over the lines of the model
Trimmed == [raw \in RawLines \cup MixedLines |-> trim(raw)]
Lines == {Trimmed[raw] : raw \in RawLines \cup MixedLines}

\* indexOf(line, pat) >= 0 and endsWith(line, ">"), tabulated over the lines
\* of the model
Found == [line \in Lines |-> {pat \in Patterns : indexOf(line, pat) >= 0}]
Prompted == {line \in Lines : endsWith(line, ">")}
contains(line, pat) == pat \in Found[line]

\* snprintf into a buffer of n bytes: at most n - 1 characters are kept
snprintf(n, str) == IF Len(str) > n - 1 THEN SubSeq(str, 1, n - 1) ELSE str

(***************************************************************************)
(* ESP01Driver, on the link record                                         *)
(*   d = [esp, sendOk, stored, payload, sub, lastAt, s, out, pops, acts]   *)
(* esp, sendOk, stored: the status record's espState, lastSendOk and       *)
(* storedReadingsCount; payload, sub, lastAt: pendingPayload,              *)
(* pendingSendState and lastAtCheck; s: the storage; out: what the call    *)
(* has written to the modem's serial channel; pops: its calls of popOldest;*)
(* acts: the checks of handleResponse whose bodies the call has executed   *)
(***************************************************************************)
THINGSPEAK_API_KEY == "YOUR_THINGSPEAK_API_KEY"
WIFI_SSID == "YOUR_SSID"
WIFI_PASS == "YOUR_PASSWORD"

Link ==
  [esp |-> espState, sendOk |-> lastSendOk, stored |-> storedReadingsCount,
   payload |-> pendingPayload, sub |-> pendingSendState, lastAt |-> lastAtCheck,
   s |-> Storage, out |-> <<>>, pops |-> 0, acts |-> <<>>]

sendAt(d, cmd) == [d EXCEPT !.out = Append(@, cmd)]

configureWiFi(d) ==
  LET d1 == sendAt(d, "AT\r\n")
      d2 == sendAt(d1, "AT+CWMODE=1\r\n")
  IN  sendAt(d2, "AT+CWJAP=\"" \o WIFI_SSID \o "\",\"" \o WIFI_PASS \o "\"\r\n")

powerOn(d) ==
  configureWiFi(sendAt([d EXCEPT !.esp = "BOOTING"], "AT\r\n"))

powerOff(d) == [d EXCEPT !.esp = "OFF"]

isReadyForSend(d) == d.esp = "READY"

\* the GET request for r
formatPayload(r) ==
  snprintf(200,
    "GET /update?api_key=" \o THINGSPEAK_API_KEY \o "&field1=" \o DecU32(r.duration_ms)
      \o " HTTP/1.1\r\nHost: api.thingspeak.com\r\nConnection: close\r\n\r\n")

\* the result: d the link afterwards, ret the return value
sendReadingToThingSpeak(d, r) ==
  IF ~isReadyForSend(d) THEN [d |-> d, ret |-> FALSE]
  ELSE LET d1 == sendAt(d, "AT+CIPSTART=\"TCP\",\"api.thingspeak.com\",80\r\n")
       IN  [d |-> [d1 EXCEPT !.payload = formatPayload(r), !.sub = 1, !.esp = "SENDING"],
            ret |-> TRUE]

\* handleResponse, the state updates that do not return
statusUpdates(d, line) ==
  LET d1 == IF contains(line, "WIFI GOT IP")
            THEN [d EXCEPT !.esp = "READY", !.acts = Append(@, "WIFI GOT IP")]
            ELSE d
      d2 == IF contains(line, "ERROR")
            THEN [d1 EXCEPT !.esp = "ERROR", !.acts = Append(@, "ERROR")]
            ELSE d1
  IN  IF contains(line, "DNS FAIL")
      THEN [d2 EXCEPT !.esp = "ERROR", !.acts = Append(@, "DNS FAIL")]
      ELSE d2

\* the begin-send command without the request's closing blank line
cipsendCommand_short(payload) ==
  snprintf(40, "AT+CIPSEND=" \o DecInt(Len(payload) - 2) \o "\r\n")

\* the begin-send command for the pending payload
cipsendCommand(payload) == snprintf(40, "AT+CIPSEND=" \o DecInt(Len(payload)) \o "\r\n")

\* handleResponse, CONNECT while pendingSendState is 1
connectConfirmed(d) ==
  [sendAt(d, cipsendCommand(d.payload)) EXCEPT !.sub = 2, !.acts = Append(@, "CONNECT")]

\* handleResponse, the prompt while pendingSendState is 2
sendPrompt(d) ==
  [d EXCEPT !.out = Append(@, d.payload), !.sub = 3, !.acts = Append(@, ">")]

\* the transmit result that pops whatever the result is
transmitResult_popsAlways(d, line) ==
  [ (IF hasPending(d.s)
     THEN [d EXCEPT !.s = popOldest(d.s).s, !.pops = @ + 1,
                    !.stored = size(popOldest(d.s).s),
                    !.sendOk = contains(line, "SEND OK")]
     ELSE [d EXCEPT !.sendOk = contains(line, "SEND OK")])
    EXCEPT !.payload = "", !.sub = 0, !.esp = "READY", !.acts = Append(@, "SEND") ]

\* handleResponse, SEND OK or SEND FAIL
transmitResult(d, line) ==
  [ (IF contains(line, "SEND OK")
     THEN IF hasPending(d.s)
          THEN [d EXCEPT !.s = popOldest(d.s).s, !.pops = @ + 1,
                         !.stored = size(popOldest(d.s).s), !.sendOk = TRUE]
          ELSE d
     ELSE [d EXCEPT !.sendOk = FALSE])
    EXCEPT !.payload = "", !.sub = 0, !.esp = "READY", !.acts = Append(@, "SEND") ]

\* CLOSED that clears the sub-state and leaves the payload
remoteClosed_keepsPayload(d) ==
  [d EXCEPT !.sub = 0, !.esp = "READY", !.acts = Append(@, "CLOSED")]

\* handleResponse, CLOSED
remoteClosed(d) ==
  [d EXCEPT !.payload = "", !.sub = 0, !.esp = "READY", !.acts = Append(@, "CLOSED")]

\* handleResponse, the checks that return, on d1 = statusUpdates(d, line)
dispatch(d1, line) ==
  IF (contains(line, "CONNECT") \/ contains(line, "ALREADY CONNECT")) /\ d1.sub = 1
  THEN connectConfirmed(d1)
  ELSE IF line \in Prompted /\ d1.sub = 2
  THEN sendPrompt(d1)
  ELSE IF contains(line, "SEND OK") \/ contains(line, "SEND FAIL")
  THEN transmitResult(d1, line)
  ELSE IF contains(line, "CLOSED")
  THEN remoteClosed(d1)
  ELSE d1

handleResponse(d, line) == dispatch(statusUpdates(d, line), line)

\* what a claim reads of the link before and after a line
View(d, bld) ==
  [esp |-> d.esp, sendOk |-> d.sendOk, payload |-> d.payload, sub |-> d.sub,
   count |-> d.s.count, head |-> d.s.head, oldest |-> peekOldest(d.s, bld)]

\* the history of one line: d before it, d1 after it (out and pops of d1 are
\* this line's alone)
LineRecord(line, d, d1, bld) ==
  [line |-> line, pre |-> View(d, bld), post |-> View(d1, bld),
   out |-> d1.out, pops |-> d1.pops, acts |-> d1.acts]

\* d1 after a line, with out and pops of the whole call so far
Accumulate(d, d1) ==
  [d1 EXCEPT !.out = d.out \o d1.out, !.pops = d.pops + d1.pops, !.acts = d.acts \o d1.acts]

RECURSIVE ReadLines(_, _, _, _)
RECURSIVE ReadLine(_, _, _, _, _)
\* the step of ReadLines for a handled line: d before it, d1 after it
ReadLine(d, d1, raws, h, bld) ==
  ReadLines(Accumulate(d, d1), Tail(raws),
            Append(h, LineRecord(Trimmed[Head(raws)], d, d1, bld)), bld)

\* loop, the while over the lines the serial channel holds: each is trimmed,
\* an empty one is skipped, the others are handled. The result: d the link
\* afterwards, h the history of the lines handled
ReadLines(d, raws, h, bld) ==
  IF raws = <<>> THEN [d |-> d, h |-> h]
  ELSE IF Len(Trimmed[Head(raws)]) = 0 THEN ReadLines(d, Tail(raws), h, bld)
  ELSE ReadLine(d, handleResponse([d EXCEPT !.out = <<>>, !.pops = 0, !.acts = <<>>],
                               Trimmed[Head(raws)]),
                raws, h, bld)

\* loop, the wake probe while booting, on run = the lines' result
probeCheck(run, t) ==
  IF run.d.esp = "BOOTING" /\ t - run.d.lastAt > 2000
  THEN [d |-> [sendAt(run.d, "AT\r\n") EXCEPT !.lastAt = t], h |-> run.h, probe |-> TRUE]
  ELSE [d |-> run.d, h |-> run.h, probe |-> FALSE]

\* loop: the lines, then the wake probe
loop(d, raws, t, bld) == probeCheck(ReadLines(d, raws, <<>>, bld), t)

(***************************************************************************)
(* Start-up                                                                *)
(***************************************************************************)
\* the cells a boot finds: the two header bytes cb, hb, the slots erased
InitEEPROM(cb, hb) ==
  [a \in QueueAddrs |-> IF a = 0 THEN cb ELSE IF a = 1 THEN hb ELSE ERASED]

\* the 32-bit value four cells hold, least significant byte first
WordAt(e, addr) ==
  U32(EEPROM_read(e, addr + 2) + 256 * EEPROM_read(e, addr + 3),
      EEPROM_read(e, addr) + 256 * EEPROM_read(e, addr + 1))

StoredReading(e, index) ==
  [duration_ms |-> WordAt(e, SlotAddr(index)), ts |-> WordAt(e, SlotAddr(index) + 4)]

\* the events the header of s makes valid, oldest first, as stored
StoredQueue(s) ==
  [i \in 1 .. s.count |-> StoredReading(s.eeprom, (s.head + i - 1) % MAX_ENTRIES)]

\* Status::init, ESP01Driver::begin and the member initialisers
InitLink ==
  /\ espState = "OFF"
  /\ lastSendOk = FALSE
  /\ storedReadingsCount = 0
  /\ pendingPayload = ""
  /\ pendingSendState = 0
  /\ lastAtCheck = 0
  /\ sentR = NoReading
  /\ now = 0

\* EEPROMStorage::begin on the cells the boot finds
InitStorage(cb, hb) ==
  LET s == begin(InitEEPROM(cb, hb))
  IN  /\ eeprom = s.eeprom
      /\ count = s.count
      /\ head = s.head
      /\ q = StoredQueue(s)
      /\ nPush = 0
      /\ head0 = s.head
      /\ last = [op |-> "begin", preCount |-> s.count, preHead |-> s.head, first |-> TRUE]

(***************************************************************************)
(* Queue operations                                                        *)
(***************************************************************************)
\* MotionDetector::onMotionComplete with a storage set: push, then the
\* status count on success
onMotionComplete(r, bound) ==
  /\ nPush < bound
  /\ \E res \in {push(Storage, r)} :
         /\ eeprom' = res.s.eeprom
         /\ count' = res.s.count
         /\ head' = res.s.head
         /\ storedReadingsCount' = IF res.ret THEN size(res.s) ELSE storedReadingsCount
         /\ q' = IF res.ret THEN Append(q, r) ELSE q
         /\ last' = [op |-> "push", r |-> r, ret |-> res.ret, slot |-> res.slot,
                     w |-> res.w, preCount |-> count, preHead |-> head]
  /\ nPush' = nPush + 1
  /\ UNCHANGED <<espState, lastSendOk, driverVars, now, build, head0>>

\* a call of popOldest
PopOldest ==
  /\ \E res \in {popOldest(Storage)} :
         /\ eeprom' = res.s.eeprom
         /\ count' = res.s.count
         /\ head' = res.s.head
         /\ q' = IF res.ret /\ q # <<>> THEN Tail(q) ELSE q
         /\ last' = [op |-> "pop", ret |-> res.ret, w |-> res.w,
                     preCount |-> count, preHead |-> head]
  /\ UNCHANGED <<statusVars, driverVars, now, build, nPush, head0>>

\* a call of peekOldest
PeekOldest ==
  /\ \E res \in {peekOldest(Storage, build)} :
         last' = [op |-> "peek", ret |-> res.ret, r |-> res.r]
  /\ UNCHANGED <<storageVars, statusVars, driverVars, now, build, nPush, head0, q>>

\* a power cycle: count and head are lost, begin loads them again
PowerCycle ==
  /\ \E s \in {begin(eeprom)} :
         /\ count' = s.count
         /\ head' = s.head
         /\ eeprom' = s.eeprom
  /\ last' = [op |-> "begin", preCount |-> count, preHead |-> head, first |-> FALSE]
  /\ UNCHANGED <<statusVars, driverVars, now, build, nPush, head0, q>>

(***************************************************************************)
(* SpecQueue: the queue alone, booted on any header, with power cycles     *)
(***************************************************************************)
InitQueue ==
  /\ \E cb \in HeaderBytes, hb \in HeaderBytes : InitStorage(cb, hb)
  /\ build \in Builds
  /\ InitLink

NextQueue ==
  \/ \E r \in Readings : onMotionComplete(r, MaxPushes)
  \/ PopOldest
  \/ PeekOldest
  \/ PowerCycle

SpecQueue == InitQueue /\ [][NextQueue]_vars

(***************************************************************************)
(* SpecFifo: the queue alone, booted empty on a valid header               *)
(***************************************************************************)
InitFifo ==
  /\ \E hb \in FifoHeads : InitStorage(0, hb)
  /\ build \in Builds
  /\ InitLink

NextFifo ==
  \/ \E r \in {FifoEvent(nPush + 1)} : onMotionComplete(r, MaxFifoPushes)
  \/ PopOldest
  \/ PeekOldest

SpecFifo == InitFifo /\ [][NextFifo]_vars

(***************************************************************************)
(* SpecCodec: one event of any value pushed into an empty queue and peeked *)
(***************************************************************************)
InitCodec ==
  /\ InitStorage(0, 0)
  /\ build \in Builds
  /\ InitLink

NextCodec ==
  \/ \E r \in CodecReadings : onMotionComplete(r, MaxCodecPushes)
  \/ PeekOldest

SpecCodec == InitCodec /\ [][NextCodec]_vars

(***************************************************************************)
(* Spec: the link and the queue of a node booted on an erased EEPROM       *)
(***************************************************************************)
\* the variables after a call that leaves the link as d
SetLink(d) ==
  /\ espState' = d.esp
  /\ lastSendOk' = d.sendOk
  /\ storedReadingsCount' = d.stored
  /\ pendingPayload' = d.payload
  /\ pendingSendState' = d.sub
  /\ lastAtCheck' = d.lastAt
  /\ eeprom' = d.s.eeprom
  /\ count' = d.s.count
  /\ head' = d.s.head
  /\ q' = SubSeq(q, d.pops + 1, Len(q))

\* millis() moves on
Tick ==
  /\ \E dt \in TickSteps : now + dt <= MaxNow /\ now' = now + dt
  /\ last' = [op |-> "tick"]
  /\ UNCHANGED <<storageVars, statusVars, driverVars, build, nPush, head0, q>>

\* a call of powerOn, the power pin unset: three delays of 200 ms
PowerOn ==
  /\ now + 600 <= MaxNow
  /\ now' = now + 600
  /\ \E d \in {powerOn(Link)} :
         /\ SetLink(d)
         /\ last' = [op |-> "powerOn", pre |-> View(Link, build), out |-> d.out]
  /\ UNCHANGED <<sentR, build, nPush, head0>>

\* a call of powerOff
PowerOff ==
  /\ espState # "OFF"
  /\ \E d \in {powerOff(Link)} :
         /\ SetLink(d)
         /\ last' = [op |-> "powerOff", pre |-> View(Link, build), out |-> d.out]
  /\ UNCHANGED <<sentR, now, build, nPush, head0>>

\* a call of loop that finds the lines raws
Loop(raws) ==
  /\ \E res \in {loop(Link, raws, now, build)} :
         /\ SetLink(res.d)
         /\ last' = [op |-> "loop", h |-> res.h, out |-> res.d.out, probe |-> res.probe]
  /\ UNCHANGED <<sentR, now, build, nPush, head0>>

\* the main loop's send request: the oldest reading, if there is one, is
\* handed to sendReadingToThingSpeak
SendOldest ==
  /\ \E pk \in {peekOldest(Storage, build)} :
       \E res \in {sendReadingToThingSpeak(Link, pk.r)} :
         /\ pk.ret
         /\ SetLink(res.d)
         /\ sentR' = IF res.ret THEN pk.r ELSE sentR
         /\ last' = [op |-> "send", ret |-> res.ret, r |-> pk.r, out |-> res.d.out,
                     pre |-> View(Link, build)]
  /\ UNCHANGED <<now, build, nPush, head0>>

Init ==
  /\ InitStorage(ERASED, ERASED)
  /\ build \in Builds
  /\ InitLink

Next ==
  \/ \E r \in {LinkEvent(nPush + 1)} : onMotionComplete(r, MaxLinkPushes)
  \/ SendOldest
  \/ \E raws \in Bursts : Loop(raws)
  \/ PowerOn
  \/ PowerOff
  \/ Tick

Spec == Init /\ [][Next]_vars

(***************************************************************************)
(* Claims about the queue                                                  *)
(***************************************************************************)
\* the events peekOldest and successive popOldest calls return from s
ReadQueue(s, bld) ==
  [i \in 1 .. s.count |->
     readReadingFromEEPROM(s.eeprom, (s.head + i - 1) % MAX_ENTRIES, bld)]

\* C1: after begin on any header bytes and any pushes and pops, count is in
\* 0..10 and head is in 0..9.
C1_HeaderInRange ==
  /\ count \in 0 .. MAX_ENTRIES
  /\ head \in 0 .. (MAX_ENTRIES - 1)

\* C2: a power cycle (begin on the persisted bytes) yields the count, the
\* head and the queued events the queue had before it.
C2_PowerCycleKeepsQueue ==
  (last.op = "begin" /\ ~last.first) =>
    /\ count = last.preCount
    /\ head = last.preHead
    /\ ReadQueue(Storage, build)
         = ReadQueue([count |-> last.preCount, head |-> last.preHead, eeprom |-> eeprom],
                     build)

\* C3: push on a full queue and popOldest on an empty queue return false and
\* leave count, head and every EEPROM byte unchanged.
C3_RejectedOpsDoNotMutate ==
  [][ /\ (last'.op = "push" /\ count = MAX_ENTRIES) =>
           (~last'.ret /\ UNCHANGED <<count, head, eeprom>>)
      /\ (last'.op = "pop" /\ count = 0) =>
           (~last'.ret /\ UNCHANGED <<count, head, eeprom>>) ]_vars

C3_Witness == last.op = "push" /\ ~last.ret /\ count = MAX_ENTRIES /\ nPush > 1

\* C4: an event pushed into an empty queue and peeked comes back with the
\* duration and the timestamp it was pushed with.
C4_RoundTrip ==
  (last.op = "peek" /\ last.ret /\ Len(q) = 1) => last.r = q[1]

\* C5: every successful push writes slot (head + count) mod 10, the push after
\* ten pushes and one pop writes slot (original head + 10) mod 10, and
\* peekOldest and successive pops return the events in the order pushed.
C5_FifoWraparound ==
  /\ (last.op = "push" /\ last.ret) =>
        last.slot = (last.preHead + last.preCount) % MAX_ENTRIES
  /\ (last.op = "push" /\ last.ret /\ nPush = MAX_ENTRIES + 1 /\ Len(q) = MAX_ENTRIES) =>
        last.slot = (head0 + MAX_ENTRIES) % MAX_ENTRIES
  /\ ReadQueue(Storage, build) = q

\* The part of C5 the ring arithmetic decides: the slots the header makes
\* valid hold, in order, the bytes of the events pushed and not yet popped.
FifoSlotsInOrder ==
  /\ (last.op = "push" /\ last.ret) =>
        last.slot = (last.preHead + last.preCount) % MAX_ENTRIES
  /\ (last.op = "push" /\ last.ret /\ nPush = MAX_ENTRIES + 1 /\ Len(q) = MAX_ENTRIES) =>
        last.slot = (head0 + MAX_ENTRIES) % MAX_ENTRIES
  /\ StoredQueue(Storage) = q

FifoWrapReached ==
  last.op = "push" /\ last.ret /\ nPush = MAX_ENTRIES + 1 /\ Len(q) = MAX_ENTRIES

\* C6: begin on a persisted count byte above 10, with any head byte, gives
\* count = 0 and head = 0: the queue is empty, peekOldest and popOldest fail.
C6_CorruptHeaderSelfHeals ==
  last.op = "begin" =>
    /\ EEPROM_read(eeprom, 0) > MAX_ENTRIES =>
          /\ count = 0 /\ head = 0
          /\ isEmpty(Storage)
          /\ ~peekOldest(Storage, build).ret
          /\ ~popOldest(Storage).ret
    /\ \A cb \in (MAX_ENTRIES + 1) .. 255 :
          LET s == begin([eeprom EXCEPT ![0] = cb])
          IN  s.count = 0 /\ s.head = 0 /\ isEmpty(s)

C6_Witness ==
  /\ last.op = "begin"
  /\ EEPROM_read(eeprom, 0) = MAX_ENTRIES + 1
  /\ EEPROM_read(eeprom, 1) = 9
  /\ count = 0 /\ head = 0

\* C7: a push makes at most 8 physical EEPROM writes and a popOldest at most
\* 2, at most 10 for an event's lifecycle.
C7_WriteBudget ==
  /\ last.op = "push" => last.w <= 8
  /\ last.op = "pop" => last.w <= 2

\* C7 as amended: a push makes at most 9 physical writes (8 entry bytes and
\* the count byte) and a popOldest at most 2, at most 11 for a lifecycle.
C7_WriteBudgetAmended ==
  /\ last.op = "push" => last.w <= 9
  /\ last.op = "pop" => last.w <= 2

C7_Witness == last.op = "push" /\ last.ret /\ last.w = 9

(***************************************************************************)
(* SpecCrash: the queue when power is lost inside push or popOldest        *)
(***************************************************************************)
\* the calls of EEPROM.update push makes, in order, as <<address, value>>
pushUpdates(s, r) ==
  IF isFull(s) THEN <<>>
  ELSE LET addr == SlotAddr(((s.head + s.count) % MAX_ENTRIES) % 256)
       IN  << <<addr + 0, ByteOf(r.duration_ms, 0)>>, <<addr + 1, ByteOf(r.duration_ms, 1)>>,
              <<addr + 2, ByteOf(r.duration_ms, 2)>>, <<addr + 3, ByteOf(r.duration_ms, 3)>>,
              <<addr + 4, ByteOf(r.ts, 0)>>, <<addr + 5, ByteOf(r.ts, 1)>>,
              <<addr + 6, ByteOf(r.ts, 2)>>, <<addr + 7, ByteOf(r.ts, 3)>>,
              <<0, (s.count + 1) % 256>> >>

\* the calls of EEPROM.update popOldest makes, in order
popOldestUpdates(s) ==
  IF isEmpty(s) THEN <<>>
  ELSE << <<1, ((s.head + 1) % MAX_ENTRIES) % 256>>,
          <<0, IF s.count # 0 THEN s.count - 1 ELSE s.count>> >>

\* the cells after the first k of the calls ups
RECURSIVE ApplyUpdates(_, _, _)
ApplyUpdates(e, ups, k) ==
  IF k = 0 THEN e
  ELSE EEPROM_update([e |-> ApplyUpdates(e, ups, k - 1), w |-> 0],
                     ups[k][1], ups[k][2]).e

\* power is lost after the k-th of the calls ups of the operation op, whose
\* completion would leave the storage done; begin then loads the header
Crash(op, ups, k, done) ==
  /\ \E s \in {begin(ApplyUpdates(eeprom, ups, k))} :
         /\ eeprom' = s.eeprom
         /\ count' = s.count
         /\ head' = s.head
         /\ q' = StoredQueue(s)
  /\ last' = [op |-> "crash", in |-> op, k |-> k,
              before |-> StoredQueue(Storage), after |-> StoredQueue(done)]
  /\ UNCHANGED <<statusVars, driverVars, now, build, head0>>

\* power is lost between two of the byte writes of push
CrashInPush(r, bound) ==
  /\ nPush < bound
  /\ nPush' = nPush + 1
  /\ \E k \in 1 .. (Len(pushUpdates(Storage, r)) - 1) :
         Crash("push", pushUpdates(Storage, r), k, push(Storage, r).s)

\* power is lost between the two byte writes of popOldest
CrashInPop ==
  /\ UNCHANGED nPush
  /\ \E k \in 1 .. (Len(popOldestUpdates(Storage)) - 1) :
         Crash("pop", popOldestUpdates(Storage), k, popOldest(Storage).s)

InitCrash ==
  /\ \E hb \in CrashHeads : InitStorage(0, hb)
  /\ build \in Builds
  /\ InitLink

NextCrash ==
  \/ \E r \in {FifoEvent(nPush + 1)} : onMotionComplete(r, MaxCrashPushes)
  \/ PopOldest
  \/ \E r \in {FifoEvent(nPush + 1)} : CrashInPush(r, MaxCrashPushes)
  \/ CrashInPop

SpecCrash == InitCrash /\ [][NextCrash]_vars

(***************************************************************************)
(* SpecMixed: the link when lines can run together                         *)
(***************************************************************************)
InitMixed == Init

NextMixed ==
  \/ \E r \in {LinkEvent(nPush + 1)} : onMotionComplete(r, MaxMixedPushes)
  \/ SendOldest
  \/ \E raw \in RawLines \cup MixedLines : Loop(<<raw>>)
  \/ PowerOn
  \/ PowerOff

SpecMixed == InitMixed /\ [][NextMixed]_vars

(***************************************************************************)
(* Claims about the link                                                   *)
(***************************************************************************)
\* the request for the event of 500 ms, 112 bytes
PayloadA ==
  "GET /update?api_key=YOUR_THINGSPEAK_API_KEY&field1=500 HTTP/1.1\r\nHost: api.thingspeak.com\r\nConnection: close\r\n\r\n"

\* the lines the last call of loop handled
Handled == IF last.op = "loop" THEN {last.h[i] : i \in DOMAIN last.h} ELSE {}

\* C8: popOldest is invoked only while a line with SEND OK is handled in
\* sub-state 3; a line handled with no send pending or in sub-state 1 or 2
\* removes no queue entry.
C8_DequeueOnlyAfterTransmit ==
  \A rec \in Handled :
    /\ rec.pops > 0 => (contains(rec.line, "SEND OK") /\ rec.pre.sub = 3)
    /\ rec.pre.sub \in {0, 1, 2} => rec.post.count = rec.pre.count

\* C9: a send request in Ready with no send pending gives Sending; a line
\* with CONNECT then causes exactly one AT+CIPSEND with the payload's length;
\* the prompt then writes the payload once; SEND OK then pops once, clears
\* the pending payload and sub-state and gives Ready.
C9_SuccessfulSendCycle ==
  /\ (last.op = "send" /\ last.pre.esp = "READY" /\ last.pre.sub = 0) =>
        /\ last.ret
        /\ espState = "SENDING" /\ pendingSendState = 1
        /\ Len(pendingPayload) > 0
        /\ last.r = LinkEvent(1) => pendingPayload = PayloadA
  /\ \A rec \in Handled :
        /\ (rec.pre.sub = 1 /\ contains(rec.line, "CONNECT")) =>
              /\ Len(rec.out) = 1
              /\ rec.out[1] = "AT+CIPSEND=" \o DecInt(Len(rec.pre.payload)) \o "\r\n"
              /\ rec.pre.payload = PayloadA => rec.out[1] = "AT+CIPSEND=112\r\n"
              /\ rec.post.sub = 2 /\ rec.post.payload = rec.pre.payload
              /\ rec.pops = 0
        /\ (rec.pre.sub = 2 /\ rec.line = ">") =>
              /\ rec.out = <<rec.pre.payload>>
              /\ rec.post.sub = 3 /\ rec.post.payload = rec.pre.payload
              /\ rec.pops = 0
        /\ (rec.pre.sub = 3 /\ contains(rec.line, "SEND OK") /\ rec.pre.count > 0) =>
              /\ rec.out = <<>>
              /\ rec.pops = 1 /\ rec.post.count = rec.pre.count - 1
              /\ rec.post.payload = "" /\ rec.post.sub = 0
              /\ rec.post.esp = "READY"

C9_Witness ==
  \E rec \in Handled :
    /\ rec.line = "SEND OK"
    /\ rec.pre.esp = "SENDING" /\ rec.pre.sub = 3 /\ rec.pre.payload = PayloadA
    /\ rec.pops = 1 /\ rec.post.esp = "READY" /\ rec.post.sub = 0

\* C10: a line with SEND FAIL handled in sub-state 3 does not pop: count and
\* head are unchanged and peekOldest still returns the event being sent,
\* lastSendOk is false, the pending payload and sub-state are cleared and
\* the state is Ready.
C10_FailedSendRetainsEvent ==
  \A rec \in Handled :
    (rec.pre.sub = 3 /\ contains(rec.line, "SEND FAIL")) =>
      /\ rec.pops = 0
      /\ rec.post.count = rec.pre.count /\ rec.post.head = rec.pre.head
      /\ rec.post.oldest = [ret |-> TRUE, r |-> sentR]
      /\ rec.post.sendOk = FALSE
      /\ rec.post.payload = "" /\ rec.post.sub = 0
      /\ rec.post.esp = "READY"

C10_Witness ==
  \E rec \in Handled :
    /\ rec.line = "SEND FAIL"
    /\ rec.pre.esp = "SENDING" /\ rec.pre.sub = 3 /\ rec.pre.sendOk
    /\ rec.post.count = 1 /\ rec.post.oldest.r = LinkEvent(2)
    /\ rec.post.esp = "READY"

\* C11: in every state of the link the pending payload is non-empty exactly
\* when the send sub-state is not 0, and exactly when the state is Sending.
C11_PendingIffSending ==
  /\ (pendingPayload # "") <=> (pendingSendState # 0)
  /\ (pendingSendState # 0) <=> (espState = "SENDING")

\* C12: a send request is accepted only in Ready with no send pending; with
\* a send pending it is refused and leaves the payload and the sub-state.
C12_SendAdmission ==
  last.op = "send" =>
    /\ last.ret => (last.pre.esp = "READY" /\ last.pre.sub = 0)
    /\ last.pre.sub # 0 =>
          /\ ~last.ret
          /\ pendingPayload = last.pre.payload
          /\ pendingSendState = last.pre.sub

\* C13: a line with WIFI CONNECTED and without WIFI GOT IP leaves the state,
\* the sub-state and the pending payload and writes nothing to the modem.
C13_JoinedOnlyIgnored ==
  \A rec \in Handled :
    (contains(rec.line, "WIFI CONNECTED") /\ ~contains(rec.line, "WIFI GOT IP")) =>
      /\ rec.post.esp = rec.pre.esp
      /\ rec.post.sub = rec.pre.sub
      /\ rec.post.payload = rec.pre.payload
      /\ rec.out = <<>>

\* C15: once the state is Error it stays Error over every line and every
\* call of loop, until powerOn or powerOff is called.
C15_ErrorIsSticky ==
  [][ /\ (espState = "ERROR" /\ last'.op \notin {"powerOn", "powerOff"}) =>
           espState' = "ERROR"
      /\ last'.op = "loop" =>
           \A i \in DOMAIN last'.h :
              last'.h[i].pre.esp = "ERROR" => last'.h[i].post.esp = "ERROR" ]_vars

\* C16: a line with CLOSED handled while a send is pending, in any of the
\* sub-states 1, 2, 3, clears the payload and the sub-state, gives Ready and
\* removes no queue entry.
C16_RemoteCloseCompletes ==
  \A rec \in Handled :
    (rec.pre.sub \in {1, 2, 3} /\ contains(rec.line, "CLOSED")) =>
      /\ rec.post.payload = "" /\ rec.post.sub = 0
      /\ rec.post.esp = "READY"
      /\ rec.pops = 0
      /\ rec.post.count = rec.pre.count /\ rec.post.head = rec.pre.head

C16_Witness ==
  \E rec \in Handled :
    /\ rec.line = "CLOSED"
    /\ rec.pre.sub = 2 /\ rec.pre.esp = "SENDING" /\ rec.pre.payload = PayloadA
    /\ rec.post.sub = 0 /\ rec.post.esp = "READY" /\ rec.post.count = 1

\* C20: while the state is Off only powerOn leaves it: no line handled in
\* Off changes the state, writes to the modem or removes a queue entry.
C20_OffUntilPowerOn ==
  [][ /\ (espState = "OFF" /\ last'.op # "powerOn") => espState' = "OFF"
      /\ last'.op = "loop" =>
           \A i \in DOMAIN last'.h :
              last'.h[i].pre.esp = "OFF" =>
                 /\ last'.h[i].post.esp = "OFF"
                 /\ last'.h[i].out = <<>>
                 /\ last'.h[i].pops = 0 ]_vars

\* C14: handleResponse performs the action of at most one check per line,
\* the first applicable one: a line with the address-confirmed indicator
\* gives Ready and nothing else, a line with an error indicator and without
\* the address-confirmed one gives Error and nothing else.
C14_OneActionPerLine ==
  \A rec \in Handled :
    /\ Len(rec.acts) <= 1
    /\ contains(rec.line, "WIFI GOT IP") =>
          /\ rec.post.esp = "READY"
          /\ rec.out = <<>> /\ rec.pops = 0
          /\ rec.post.sub = rec.pre.sub /\ rec.post.payload = rec.pre.payload
    /\ (contains(rec.line, "ERROR") /\ ~contains(rec.line, "WIFI GOT IP")) =>
          /\ rec.post.esp = "ERROR"
          /\ rec.out = <<>> /\ rec.pops = 0
          /\ rec.post.sub = rec.pre.sub /\ rec.post.payload = rec.pre.payload

\* C17: a push made while a send requested for the oldest entry is pending
\* leaves head and the oldest entry, and the entry a SEND OK of that send
\* removes is the one at head, the event the pending payload was formatted
\* for.
C17_PushDuringSend ==
  [][ /\ (last'.op = "push" /\ pendingSendState # 0) =>
           /\ head' = head
           /\ peekOldest([count |-> count', head |-> head', eeprom |-> eeprom'], build)
                = peekOldest(Storage, build)
           /\ peekOldest(Storage, build) = [ret |-> TRUE, r |-> sentR]
      /\ last'.op = "loop" =>
           \A i \in DOMAIN last'.h :
              (last'.h[i].pre.sub # 0 /\ last'.h[i].pops > 0) =>
                 /\ last'.h[i].pops = 1
                 /\ last'.h[i].pre.oldest = [ret |-> TRUE, r |-> sentR]
                 /\ last'.h[i].pre.payload = formatPayload(sentR)
                 /\ last'.h[i].post.head = (last'.h[i].pre.head + 1) % MAX_ENTRIES
                 /\ last'.h[i].post.count = last'.h[i].pre.count - 1 ]_vars

C17_Witness ==
  /\ last.op = "push" /\ last.ret /\ last.r = LinkEvent(2)
  /\ pendingSendState = 3 /\ espState = "SENDING"
  /\ count = 2 /\ sentR = LinkEvent(1)
  /\ peekOldest(Storage, build) = [ret |-> TRUE, r |-> LinkEvent(1)]

\* what the lines of h made handleResponse write, in order
RECURSIVE LinesOut(_)
LinesOut(h) == IF h = <<>> THEN <<>> ELSE Head(h).out \o LinesOut(Tail(h))

\* C18: loop writes the wake probe only in Booting and more than 2000 ms
\* after the last wake probe, those of powerOn included (a loop that follows
\* powerOn directly runs 400 ms after powerOn's second probe); everything
\* else loop writes is the reaction to a line.
C18_ProbeTiming ==
  [][ last'.op = "loop" =>
        /\ last'.out = LinesOut(last'.h) \o (IF last'.probe THEN <<"AT\r\n">> ELSE <<>>)
        /\ last'.probe =>
              /\ espState' = "BOOTING"
              /\ now - lastAtCheck > 2000
              /\ last.op # "powerOn" ]_vars

\* the calls of EEPROM.update, all applied, leave the cells the operation
\* leaves
UpdatesAreTheOperation ==
  /\ \A r \in {FifoEvent(nPush + 1)} :
        ApplyUpdates(eeprom, pushUpdates(Storage, r), Len(pushUpdates(Storage, r)))
          = push(Storage, r).s.eeprom
  /\ ApplyUpdates(eeprom, popOldestUpdates(Storage), Len(popOldestUpdates(Storage)))
        = popOldest(Storage).s.eeprom

\* C19: when power is lost between two byte writes of push or popOldest, the
\* queue the next begin loads is the queue before the operation or the queue
\* after it.
C19_CrashAtomicity ==
  last.op = "crash" =>
    \/ StoredQueue(Storage) = last.before
    \/ StoredQueue(Storage) = last.after

\* the part of C19 that push decides
CrashInPushIsAtomic ==
  (last.op = "crash" /\ last.in = "push") =>
    \/ StoredQueue(Storage) = last.before
    \/ StoredQueue(Storage) = last.after

====
